---- MODULE Spec2Model ----
(***************************************************************************)
(* Model of the Simple Linux Security Audit Tool (src/linux-code.py).      *)
(*                                                                         *)
(* The program state is the three module globals report, score and         *)
(* max_score, the position of the interpreter inside main(), and what the  *)
(* program has written so far (the probe calls it made, the summaries it   *)
(* printed).  The host the audit looks at is the variable sys: the outcome *)
(* of every shell command and the state of every audited file.  An entry   *)
(* of sys is chosen the first time the program looks at it and stays as    *)
(* chosen afterwards (the host does not change while the process runs).    *)
(*                                                                         *)
(* Text is a sequence of one-character strings, so that str.strip(), the   *)
(* 'in' substring test and the [-3:] slice are computed as Python does.    *)
(***************************************************************************)
EXTENDS Integers, Sequences, FiniteSets, TLC

VARIABLES report, score, max_score, pc, calls, euid, sys, fs, probe_log, printed

vars == <<report, score, max_score, pc, calls, euid, sys, fs, probe_log, printed>>

(***************************************************************************)
(* Bounds                                                                  *)
(***************************************************************************)
\* Number of times main() is called in one process (SpecRepeat only).
MaxCalls == 2

(***************************************************************************)
(* Text                                                                    *)
(***************************************************************************)
NL == <<"\n">>

Whitespace == {" ", "\n", "\t", "\r"}

RECURSIVE LStrip(_)
LStrip(s) == IF s # <<>> /\ Head(s) \in Whitespace THEN LStrip(Tail(s)) ELSE s

RECURSIVE RStrip(_)
RStrip(s) ==
    IF s # <<>> /\ s[Len(s)] \in Whitespace THEN RStrip(SubSeq(s, 1, Len(s) - 1)) ELSE s

\* str.strip()
Strip(s) == RStrip(LStrip(s))

\* sub in s
Contains(sub, s) ==
    \E i \in 0..(Len(s) - Len(sub)) : SubSeq(s, i + 1, i + Len(sub)) = sub

T_active == <<"a","c","t","i","v","e">>
T_inactive == <<"i","n","a","c","t","i","v","e">>
T_failed == <<"f","a","i","l","e","d">>
T_PermitRootLogin == <<"P","e","r","m","i","t","R","o","o","t","L","o","g","i","n">>
T_PermitRootLogin_no == T_PermitRootLogin \o <<" ","n","o">>
T_PermitRootLogin_yes == T_PermitRootLogin \o <<" ","y","e","s">>
T_umask == <<"u","m","a","s","k"," ">>
T_umask_027 == T_umask \o <<"0","2","7">>
T_umask_077 == T_umask \o <<"0","7","7">>
T_umask_022 == T_umask \o <<"0","2","2">>
T_services == <<"s","s","h",".","s","e","r","v","i","c","e">>
T_rkhunter_path == <<"/","b","i","n","/","r","k","h","u","n","t","e","r">>
T_Warning == <<"W","a","r","n","i","n","g",":">>
T_None == <<"N","o","n","e">>

(***************************************************************************)
(* The host: shell commands and files                                      *)
(***************************************************************************)
CMD_FIREWALL == "systemctl is-active ufw"
CMD_SSH == "grep '^PermitRootLogin' /etc/ssh/sshd_config || true"
CMD_SERVICES == "systemctl list-unit-files --type=service --state=enabled | grep '.service'"
CMD_UMASK == "grep '^umask' /etc/profile || true"
CMD_RKHUNTER_PRESENT == "command -v rkhunter"
CMD_RKHUNTER_SCAN == "sudo rkhunter --check --rwo"

SSHD_CONFIG == "/etc/ssh/sshd_config"
ETC_PASSWD == "/etc/passwd"
ETC_SHADOW == "/etc/shadow"

\* What subprocess.run does with a command: it raises (TimeoutExpired after
\* the timeout, OSError when the shell cannot be started) or it completes
\* with a return code and the captured standard output.
Exited(rc, out) == [raised |-> "none", returncode |-> rc, stdout |-> out]
TimedOut == [raised |-> "TimeoutExpired", returncode |-> 0, stdout |-> <<>>]
LaunchError == [raised |-> "OSError", returncode |-> 0, stdout |-> <<>>]

Stdouts(cmd) ==
    CASE cmd = CMD_FIREWALL -> {T_active \o NL, T_inactive \o NL, T_failed \o NL}
      [] cmd = CMD_SSH -> {T_PermitRootLogin_no \o NL, T_PermitRootLogin_yes \o NL, <<>>}
      [] cmd = CMD_SERVICES -> {T_services \o NL}
      [] cmd = CMD_UMASK -> {T_umask_027 \o NL, T_umask_077 \o NL, T_umask_022 \o NL, <<>>}
      [] cmd = CMD_RKHUNTER_PRESENT -> {T_rkhunter_path \o NL}
      [] cmd = CMD_RKHUNTER_SCAN -> {<<>>, NL \o T_Warning \o <<" ","x">> \o NL}

\* systemctl is-active prints the state and exits with 3 for a unit that is
\* not active; the other commands fail with 1 and no output.
NonZeroExits(cmd) ==
    IF cmd = CMD_FIREWALL THEN {Exited(3, T_inactive \o NL)} ELSE {Exited(1, <<>>)}

Outcomes(cmd) ==
    {Exited(0, out) : out \in Stdouts(cmd)} \cup NonZeroExits(cmd) \cup {TimedOut, LaunchError}

\* A path: absent, present but os.stat raises, or present with a st_mode.
Missing == [exists |-> FALSE, stat_ok |-> FALSE, st_mode |-> 0]
StatFails == [exists |-> TRUE, stat_ok |-> FALSE, st_mode |-> 0]
File(mode) == [exists |-> TRUE, stat_ok |-> TRUE, st_mode |-> mode]

\* st_mode of regular files: 0o100644, 0o100640, 0o100600, 0o100400, and
\* 0o104644 (set-uid bit on top of 644).
Modes(path) ==
    IF path = ETC_PASSWD THEN {33188, 33152, 35236}
    ELSE {33188, 33184, 33152, 33024}

FileStates(path) ==
    IF path = SSHD_CONFIG THEN {Missing, File(33188)}
    ELSE {Missing, StatFails} \cup {File(m) : m \in Modes(path)}

\* The outcome o of running cmd on this host, and the host afterwards.
Probe(cmd, o) ==
    /\ o \in Outcomes(cmd)
    /\ cmd \in DOMAIN sys => o = sys[cmd]

\* The state f of path on this host.
Look(path, f) ==
    /\ f \in FileStates(path)
    /\ path \in DOMAIN fs => f = fs[path]

(***************************************************************************)
(* run_command                                                             *)
(***************************************************************************)
None == [is_none |-> TRUE, text |-> <<>>]
Str(s) == [is_none |-> FALSE, text |-> s]

\* run_command without the returncode test
run_command_ignoring_returncode(o) ==
    IF o.raised # "none" THEN None
    ELSE Str(Strip(o.stdout))

run_command(o) ==
    IF o.raised # "none" THEN None
    ELSE IF o.returncode # 0 THEN None
    ELSE Str(Strip(o.stdout))

\* f"{x}" of a run_command result
Format(x) == IF x.is_none THEN T_None ELSE x.text

Call(cmd, o) == [command |-> cmd, outcome |-> o, result |-> run_command(o)]

Result(check, status, message, found) ==
    [check |-> check, status |-> status, message |-> message, found |-> found]

(***************************************************************************)
(* Initial state: the module has been loaded                               *)
(***************************************************************************)
Init ==
    /\ report = <<>>
    /\ score = 0
    /\ max_score = 0
    /\ pc = "main"
    /\ calls = 0
    /\ euid \in {0, 1000}
    /\ sys = <<>>
    /\ fs = <<>>
    /\ probe_log = <<>>
    /\ printed = <<>>

(***************************************************************************)
(* main: entry and root check                                              *)
(***************************************************************************)
main ==
    /\ pc = "main"
    /\ calls' = calls + 1
    /\ pc' = IF euid # 0 THEN "exit" ELSE "check_firewall"
    /\ UNCHANGED <<report, score, max_score, euid, sys, fs, probe_log, printed>>

(***************************************************************************)
(* check_firewall                                                          *)
(***************************************************************************)
\* check_firewall with max_score += 1 moved into the PASS and FAIL branches
check_firewall_error_unscored ==
    /\ pc = "check_firewall"
    /\ \E o \in Outcomes(CMD_FIREWALL) :
        /\ Probe(CMD_FIREWALL, o)
        /\ sys' = (CMD_FIREWALL :> o) @@ sys
        /\ probe_log' = Append(probe_log, Call(CMD_FIREWALL, o))
        /\ LET status == run_command(o) IN
            IF status = Str(T_active)
            THEN /\ report' = Append(report, Result("Firewall", "PASS",
                                "Firewall (ufw) is active.", <<>>))
                 /\ score' = score + 1
            ELSE IF status = Str(T_inactive)
            THEN /\ report' = Append(report, Result("Firewall", "FAIL",
                                "Firewall (ufw) is INACTIVE.", <<>>))
                 /\ score' = score
            ELSE /\ report' = Append(report, Result("Firewall", "ERROR",
                                "Could not determine ufw status. Is 'ufw' installed?", <<>>))
                 /\ score' = score
    /\ max_score' = IF report'[Len(report')].status = "ERROR" THEN max_score ELSE max_score + 1
    /\ pc' = "check_ssh_config"
    /\ UNCHANGED <<calls, euid, fs, printed>>

check_firewall ==
    /\ pc = "check_firewall"
    /\ \E o \in Outcomes(CMD_FIREWALL) :
        /\ Probe(CMD_FIREWALL, o)
        /\ sys' = (CMD_FIREWALL :> o) @@ sys
        /\ probe_log' = Append(probe_log, Call(CMD_FIREWALL, o))
        /\ LET status == run_command(o) IN
            IF status = Str(T_active)
            THEN /\ report' = Append(report, Result("Firewall", "PASS",
                                "Firewall (ufw) is active.", <<>>))
                 /\ score' = score + 1
            ELSE IF status = Str(T_inactive)
            THEN /\ report' = Append(report, Result("Firewall", "FAIL",
                                "Firewall (ufw) is INACTIVE.", <<>>))
                 /\ score' = score
            ELSE /\ report' = Append(report, Result("Firewall", "ERROR",
                                "Could not determine ufw status. Is 'ufw' installed?", <<>>))
                 /\ score' = score
    /\ max_score' = max_score + 1
    /\ pc' = "check_ssh_config"
    /\ UNCHANGED <<calls, euid, fs, printed>>

(***************************************************************************)
(* check_ssh_config                                                        *)
(***************************************************************************)
\* check_ssh_config with max_score += 1 placed after the early return
check_ssh_config_late_increment ==
    /\ pc = "check_ssh_config"
    /\ \E f \in FileStates(SSHD_CONFIG) :
        /\ Look(SSHD_CONFIG, f)
        /\ fs' = (SSHD_CONFIG :> f) @@ fs
        /\ IF ~f.exists
           THEN /\ report' = Append(report, Result("SSH Root Login", "ERROR",
                                "SSH config file not found at /etc/ssh/sshd_config.", <<>>))
                /\ score' = score
                /\ max_score' = max_score
                /\ UNCHANGED <<sys, probe_log>>
           ELSE \E o \in Outcomes(CMD_SSH) :
                /\ max_score' = max_score + 1
                /\ Probe(CMD_SSH, o)
                /\ sys' = (CMD_SSH :> o) @@ sys
                /\ probe_log' = Append(probe_log, Call(CMD_SSH, o))
                /\ LET config == run_command(o) IN
                    IF config = Str(T_PermitRootLogin_no)
                    THEN /\ report' = Append(report, Result("SSH Root Login", "PASS",
                                        "PermitRootLogin is set to 'no'.", <<>>))
                         /\ score' = score + 1
                    ELSE /\ report' = Append(report, Result("SSH Root Login", "FAIL",
                                        "PermitRootLogin is NOT securely set to 'no'. Found:",
                                        Format(config)))
                         /\ score' = score
    /\ pc' = "check_file_permissions"
    /\ UNCHANGED <<calls, euid, printed>>

check_ssh_config ==
    /\ pc = "check_ssh_config"
    /\ max_score' = max_score + 1
    /\ \E f \in FileStates(SSHD_CONFIG) :
        /\ Look(SSHD_CONFIG, f)
        /\ fs' = (SSHD_CONFIG :> f) @@ fs
        /\ IF ~f.exists
           THEN /\ report' = Append(report, Result("SSH Root Login", "ERROR",
                                "SSH config file not found at /etc/ssh/sshd_config.", <<>>))
                /\ score' = score
                /\ UNCHANGED <<sys, probe_log>>
           ELSE \E o \in Outcomes(CMD_SSH) :
                /\ Probe(CMD_SSH, o)
                /\ sys' = (CMD_SSH :> o) @@ sys
                /\ probe_log' = Append(probe_log, Call(CMD_SSH, o))
                /\ LET config == run_command(o) IN
                    IF config = Str(T_PermitRootLogin_no)
                    THEN /\ report' = Append(report, Result("SSH Root Login", "PASS",
                                        "PermitRootLogin is set to 'no'.", <<>>))
                         /\ score' = score + 1
                    ELSE /\ report' = Append(report, Result("SSH Root Login", "FAIL",
                                        "PermitRootLogin is NOT securely set to 'no'. Found:",
                                        Format(config)))
                         /\ score' = score
    /\ pc' = "check_file_permissions"
    /\ UNCHANGED <<calls, euid, printed>>

(***************************************************************************)
(* check_file_permissions                                                  *)
(***************************************************************************)
OctDigit == <<"0", "1", "2", "3", "4", "5", "6", "7">>

RECURSIVE OctDigits(_)
OctDigits(n) ==
    IF n < 8 THEN <<OctDigit[n + 1]>> ELSE Append(OctDigits(n \div 8), OctDigit[(n % 8) + 1])

\* oct(n)
Oct(n) == <<"0", "o">> \o OctDigits(n)

\* s[-3:]
Last3(s) == IF Len(s) <= 3 THEN s ELSE SubSeq(s, Len(s) - 2, Len(s))

\* the keys of files_to_check, in insertion order
files_to_check == <<ETC_PASSWD, ETC_SHADOW>>

\* expected_perms_list with "644" also allowed for /etc/shadow
expected_perms_list_shadow_644(file_path) ==
    IF file_path = ETC_PASSWD THEN {<<"6", "4", "4">>}
    ELSE {<<"6", "4", "4">>, <<"6", "4", "0">>, <<"6", "0", "0">>, <<"4", "0", "0">>}

\* files_to_check[file_path], made a list
expected_perms_list(file_path) ==
    IF file_path = ETC_PASSWD THEN {<<"6", "4", "4">>}
    ELSE {<<"6", "4", "0">>, <<"6", "0", "0">>, <<"4", "0", "0">>}

PermissionsCheck(file_path) ==
    IF file_path = ETC_PASSWD THEN "Permissions: /etc/passwd" ELSE "Permissions: /etc/shadow"

\* One iteration of the loop: the result it appends for file_path in state f.
file_permissions_result(file_path, f) ==
    IF ~f.exists
    THEN Result(PermissionsCheck(file_path), "ERROR", "File not found", <<>>)
    ELSE IF ~f.stat_ok
    THEN Result(PermissionsCheck(file_path), "ERROR", "Could not check permissions", <<>>)
    ELSE LET perms == Last3(Oct(f.st_mode)) IN
         IF perms \in expected_perms_list(file_path)
         THEN Result(PermissionsCheck(file_path), "PASS", "Permissions are", perms)
         ELSE Result(PermissionsCheck(file_path), "FAIL", "Permissions are (Expected)", perms)

\* score += 1 is executed in the PASS branch only
Points(r) == IF r.status = "PASS" THEN 1 ELSE 0

\* check_file_permissions iterating /etc/shadow before /etc/passwd
check_file_permissions_shadow_first ==
    /\ pc = "check_file_permissions"
    /\ \E f1 \in FileStates(files_to_check[1]), f2 \in FileStates(files_to_check[2]) :
        /\ Look(files_to_check[1], f1)
        /\ Look(files_to_check[2], f2)
        /\ fs' = (files_to_check[1] :> f1) @@ (files_to_check[2] :> f2) @@ fs
        /\ LET r1 == file_permissions_result(files_to_check[1], f1)
               r2 == file_permissions_result(files_to_check[2], f2)
           IN /\ report' = Append(Append(report, r2), r1)
              /\ max_score' = max_score + 1 + 1
              /\ score' = score + Points(r1) + Points(r2)
    /\ pc' = "check_cis_umask"
    /\ UNCHANGED <<calls, euid, sys, probe_log, printed>>

check_file_permissions ==
    /\ pc = "check_file_permissions"
    /\ \E f1 \in FileStates(files_to_check[1]), f2 \in FileStates(files_to_check[2]) :
        /\ Look(files_to_check[1], f1)
        /\ Look(files_to_check[2], f2)
        /\ fs' = (files_to_check[1] :> f1) @@ (files_to_check[2] :> f2) @@ fs
        /\ LET r1 == file_permissions_result(files_to_check[1], f1)
               r2 == file_permissions_result(files_to_check[2], f2)
           IN /\ report' = Append(Append(report, r1), r2)
              /\ max_score' = max_score + 1 + 1
              /\ score' = score + Points(r1) + Points(r2)
    /\ pc' = "check_cis_umask"
    /\ UNCHANGED <<calls, euid, sys, probe_log, printed>>

(***************************************************************************)
(* check_cis_umask                                                         *)
(***************************************************************************)
\* "umask 027" in umask_setting raises TypeError when umask_setting is None;
\* nothing catches it, so it leaves check_cis_umask and main.
check_cis_umask ==
    /\ pc = "check_cis_umask"
    /\ max_score' = max_score + 1
    /\ \E o \in Outcomes(CMD_UMASK) :
        /\ Probe(CMD_UMASK, o)
        /\ sys' = (CMD_UMASK :> o) @@ sys
        /\ probe_log' = Append(probe_log, Call(CMD_UMASK, o))
        /\ LET umask_setting == run_command(o) IN
            IF umask_setting.is_none
            THEN /\ pc' = "raised"
                 /\ UNCHANGED <<report, score>>
            ELSE IF Contains(T_umask_027, umask_setting.text)
                    \/ Contains(T_umask_077, umask_setting.text)
            THEN /\ report' = Append(report, Result("CIS: Default Umask", "PASS",
                                "Umask setting found:", Format(umask_setting)))
                 /\ score' = score + 1
                 /\ pc' = "check_unused_services"
            ELSE /\ report' = Append(report, Result("CIS: Default Umask", "FAIL",
                                "Default umask is not set to 027 or 077. Found:",
                                Format(umask_setting)))
                 /\ score' = score
                 /\ pc' = "check_unused_services"
    /\ UNCHANGED <<calls, euid, fs, printed>>

(***************************************************************************)
(* check_unused_services                                                   *)
(***************************************************************************)
\* check_unused_services counted as a scorable check
check_unused_services_scored ==
    /\ pc = "check_unused_services"
    /\ \E o \in Outcomes(CMD_SERVICES) :
        /\ Probe(CMD_SERVICES, o)
        /\ sys' = (CMD_SERVICES :> o) @@ sys
        /\ probe_log' = Append(probe_log, Call(CMD_SERVICES, o))
        /\ LET services == run_command(o) IN
            IF ~services.is_none
            THEN report' = Append(report, Result("Enabled Services", "INFO",
                                "Review this list for any services you don't need.",
                                Format(services)))
            ELSE report' = Append(report, Result("Enabled Services", "ERROR",
                                "Could not list enabled services.", <<>>))
    /\ pc' = "check_rootkits"
    /\ max_score' = max_score + 1
    /\ UNCHANGED <<score, calls, euid, fs, printed>>

check_unused_services ==
    /\ pc = "check_unused_services"
    /\ \E o \in Outcomes(CMD_SERVICES) :
        /\ Probe(CMD_SERVICES, o)
        /\ sys' = (CMD_SERVICES :> o) @@ sys
        /\ probe_log' = Append(probe_log, Call(CMD_SERVICES, o))
        /\ LET services == run_command(o) IN
            IF ~services.is_none
            THEN report' = Append(report, Result("Enabled Services", "INFO",
                                "Review this list for any services you don't need.",
                                Format(services)))
            ELSE report' = Append(report, Result("Enabled Services", "ERROR",
                                "Could not list enabled services.", <<>>))
    /\ pc' = "check_rootkits"
    /\ UNCHANGED <<score, max_score, calls, euid, fs, printed>>

(***************************************************************************)
(* check_rootkits                                                          *)
(***************************************************************************)
\* check_rootkits recording FAIL for a scan with warnings
check_rootkits_warning_fails ==
    /\ pc = "check_rootkits"
    /\ \E p \in Outcomes(CMD_RKHUNTER_PRESENT) :
        /\ Probe(CMD_RKHUNTER_PRESENT, p)
        /\ IF run_command(p).is_none
           THEN /\ sys' = (CMD_RKHUNTER_PRESENT :> p) @@ sys
                /\ probe_log' = Append(probe_log, Call(CMD_RKHUNTER_PRESENT, p))
                /\ report' = Append(report, Result("Rootkit Scan", "ERROR",
                                "rkhunter is not installed.", <<>>))
           ELSE \E o \in Outcomes(CMD_RKHUNTER_SCAN) :
                /\ Probe(CMD_RKHUNTER_SCAN, o)
                /\ sys' = (CMD_RKHUNTER_PRESENT :> p) @@ (CMD_RKHUNTER_SCAN :> o) @@ sys
                /\ probe_log' = Append(Append(probe_log, Call(CMD_RKHUNTER_PRESENT, p)),
                                       Call(CMD_RKHUNTER_SCAN, o))
                /\ LET scan_output == run_command(o) IN
                    IF scan_output.is_none
                    THEN report' = Append(report, Result("Rootkit Scan", "ERROR",
                                        "rkhunter scan failed to run.", <<>>))
                    ELSE IF Contains(T_Warning, scan_output.text)
                    THEN report' = Append(report, Result("Rootkit Scan", "FAIL",
                                        "rkhunter found warnings.", Format(scan_output)))
                    ELSE report' = Append(report, Result("Rootkit Scan", "PASS",
                                        "rkhunter scan completed with no warnings.", <<>>))
    /\ pc' = "print_report"
    /\ UNCHANGED <<score, max_score, calls, euid, fs, printed>>

check_rootkits ==
    /\ pc = "check_rootkits"
    /\ \E p \in Outcomes(CMD_RKHUNTER_PRESENT) :
        /\ Probe(CMD_RKHUNTER_PRESENT, p)
        /\ IF run_command(p).is_none
           THEN /\ sys' = (CMD_RKHUNTER_PRESENT :> p) @@ sys
                /\ probe_log' = Append(probe_log, Call(CMD_RKHUNTER_PRESENT, p))
                /\ report' = Append(report, Result("Rootkit Scan", "ERROR",
                                "rkhunter is not installed.", <<>>))
           ELSE \E o \in Outcomes(CMD_RKHUNTER_SCAN) :
                /\ Probe(CMD_RKHUNTER_SCAN, o)
                /\ sys' = (CMD_RKHUNTER_PRESENT :> p) @@ (CMD_RKHUNTER_SCAN :> o) @@ sys
                /\ probe_log' = Append(Append(probe_log, Call(CMD_RKHUNTER_PRESENT, p)),
                                       Call(CMD_RKHUNTER_SCAN, o))
                /\ LET scan_output == run_command(o) IN
                    IF scan_output.is_none
                    THEN report' = Append(report, Result("Rootkit Scan", "ERROR",
                                        "rkhunter scan failed to run.", <<>>))
                    ELSE IF Contains(T_Warning, scan_output.text)
                    THEN report' = Append(report, Result("Rootkit Scan", "WARNING",
                                        "rkhunter found warnings.", Format(scan_output)))
                    ELSE report' = Append(report, Result("Rootkit Scan", "PASS",
                                        "rkhunter scan completed with no warnings.", <<>>))
    /\ pc' = "print_report"
    /\ UNCHANGED <<score, max_score, calls, euid, fs, printed>>

(***************************************************************************)
(* main: the report summary and the final score                            *)
(***************************************************************************)
print_report ==
    /\ pc = "print_report"
    /\ printed' = Append(printed,
            [items |-> report,
             final |-> IF max_score > 0 THEN "Your system compliance score is"
                       ELSE "No scorable checks were completed.",
             score |-> score,
             max_score |-> max_score])
    /\ pc' = "done"
    /\ UNCHANGED <<report, score, max_score, calls, euid, sys, fs, probe_log>>

\* main() is called once more in the same process, after it returned.
main_again ==
    /\ pc = "done"
    /\ calls < MaxCalls
    /\ pc' = "main"
    /\ UNCHANGED <<report, score, max_score, calls, euid, sys, fs, probe_log, printed>>

(***************************************************************************)
(* Specifications                                                          *)
(***************************************************************************)
Next ==
    \/ main
    \/ check_firewall
    \/ check_ssh_config
    \/ check_file_permissions
    \/ check_cis_umask
    \/ check_unused_services
    \/ check_rootkits
    \/ print_report

\* The program as shipped: "__main__" calls main() once.
Spec == Init /\ [][Next]_vars

NextRepeat == Next \/ main_again

\* The module used by a caller that invokes main() up to MaxCalls times.
SpecRepeat == Init /\ [][NextRepeat]_vars

(***************************************************************************)
(* Properties                                                              *)
(***************************************************************************)
\* The check names in the order main() runs the code that records them.
CheckOrder ==
    <<"Firewall", "SSH Root Login", "Permissions: /etc/passwd", "Permissions: /etc/shadow",
      "CIS: Default Umask", "Enabled Services", "Rootkit Scan">>

Rank(check) == CHOOSE k \in 1..Len(CheckOrder) : CheckOrder[k] = check

\* The indices of the results recorded for a check.
Entries(check) == {i \in 1..Len(report) : report[i].check = check}

\* The results a step appended.
Appended == {i \in (Len(report) + 1)..Len(report') : TRUE}

Failed(o) == o.raised # "none" \/ o.returncode # 0

AfterFilePermissions ==
    pc \in {"check_cis_umask", "check_unused_services", "check_rootkits",
            "print_report", "done", "raised"}

AfterRootkits == pc \in {"print_report", "done"}

\* C1: no check raises out of its body (a failure inside a check becomes an
\* ERROR result), and main always runs all six checks, also when the umask
\* probe fails.
C1_NoCheckRaises ==
    /\ pc # "raised"
    /\ AfterRootkits => \A k \in 1..Len(CheckOrder) : Entries(CheckOrder[k]) # {}

\* C2: a step of a scorable check adds exactly 1 to max_score for each of its
\* instances (two for the file-permission check, one for the others), and
\* adds to score exactly 1 for each PASS result it appends and nothing else.
ScorableInstances ==
    CASE pc = "check_firewall" -> 1
      [] pc = "check_ssh_config" -> 1
      [] pc = "check_file_permissions" -> 2
      [] pc = "check_cis_umask" -> 1
      [] OTHER -> 0

C2_ScoringPerInstance ==
    [][ScorableInstances > 0 =>
         /\ max_score' = max_score + ScorableInstances
         /\ score' = score + Cardinality({i \in Appended : report'[i].status = "PASS"})
         /\ Cardinality(Appended) <= ScorableInstances]_vars

C2_Witness ==
    /\ pc = "check_unused_services"
    /\ max_score = 5
    /\ score = 2
    /\ report[1].status = "ERROR"
    /\ report[2].status = "FAIL"
    /\ report[3].status = "PASS"
    /\ report[5].status = "PASS"

\* C3: a check whose probe failed, or whose file or binary is missing, records
\* a result with status ERROR (never FAIL); this includes check_ssh_config
\* when the grep probe fails and check_cis_umask when its probe fails.
ProbeFailed(cmd) == cmd \in DOMAIN sys /\ Failed(sys[cmd])

PathUnreadable(path) == path \in DOMAIN fs /\ (~fs[path].exists \/ ~fs[path].stat_ok)

Undetermined(check) ==
    CASE check = "Firewall" -> ProbeFailed(CMD_FIREWALL)
      [] check = "SSH Root Login" -> PathUnreadable(SSHD_CONFIG) \/ ProbeFailed(CMD_SSH)
      [] check = "Permissions: /etc/passwd" -> PathUnreadable(ETC_PASSWD)
      [] check = "Permissions: /etc/shadow" -> PathUnreadable(ETC_SHADOW)
      [] check = "CIS: Default Umask" -> ProbeFailed(CMD_UMASK)
      [] check = "Enabled Services" -> ProbeFailed(CMD_SERVICES)
      [] check = "Rootkit Scan" ->
            ProbeFailed(CMD_RKHUNTER_PRESENT) \/ ProbeFailed(CMD_RKHUNTER_SCAN)

C3_UndeterminedIsError ==
    /\ \A i \in 1..Len(report) :
            Undetermined(report[i].check) => report[i].status = "ERROR"
    /\ ProbeFailed(CMD_UMASK) =>
            \E i \in Entries("CIS: Default Umask") : report[i].status = "ERROR"

\* C4: a second call of main() in the same process, on an unchanged host,
\* starts from an empty report and score = max_score = 0, and prints the same
\* report and the same score as the first call.
C4_RepeatedRunIdentical ==
    /\ pc = "check_firewall" => report = <<>> /\ score = 0 /\ max_score = 0
    /\ \A m, n \in 1..Len(printed) : printed[m] = printed[n]

\* C5: results are only ever appended to the report, each step appends the
\* results of the check it runs, and the results of a call of main() are in
\* the fixed order Firewall, SSH Root Login, /etc/passwd, /etc/shadow,
\* Default Umask, Enabled Services, Rootkit Scan: of two results of the same
\* call, the one of the earlier check has the smaller index.
StepChecks ==
    CASE pc = "check_firewall" -> {"Firewall"}
      [] pc = "check_ssh_config" -> {"SSH Root Login"}
      [] pc = "check_file_permissions" ->
            {"Permissions: /etc/passwd", "Permissions: /etc/shadow"}
      [] pc = "check_cis_umask" -> {"CIS: Default Umask"}
      [] pc = "check_unused_services" -> {"Enabled Services"}
      [] pc = "check_rootkits" -> {"Rootkit Scan"}
      [] OTHER -> {}

\* The length the report had when the current call of main() began: what the
\* previous call printed.
CallBase ==
    LET k == IF pc = "done" THEN Len(printed) - 1 ELSE Len(printed)
    IN IF k = 0 THEN 0 ELSE Len(printed[k].items)

C5_ExecutionOrder ==
    [][/\ Len(report') >= Len(report)
       /\ SubSeq(report', 1, Len(report)) = report
       /\ \A i \in Appended : report'[i].check \in StepChecks
       /\ \A i, j \in (CallBase' + 1)..Len(report') :
            i < j => Rank(report'[i].check) < Rank(report'[j].check)]_vars

C5_Witness ==
    /\ pc = "done"
    /\ calls = 2
    /\ Len(report) = 14
    /\ report[8].check = "Firewall"
    /\ report[10].status = "ERROR"
    /\ report[11].status = "FAIL"
    /\ report[14].status = "WARNING"

\* C6: check_unused_services and check_rootkits leave score and max_score
\* unchanged whatever they record, and no step that appends an INFO or
\* WARNING result changes score or max_score.
C6_InformationalNotScored ==
    [][/\ pc \in {"check_unused_services", "check_rootkits"} =>
            score' = score /\ max_score' = max_score
       /\ (\E i \in Appended : report'[i].status \in {"INFO", "WARNING"}) =>
            score' = score /\ max_score' = max_score]_vars

C6_Witness ==
    /\ pc = "done"
    /\ report[6].status = "INFO"
    /\ report[7].status = "PASS"
    /\ score = 0
    /\ max_score = 5

\* C7: every call of run_command returns: the standard output with leading
\* and trailing whitespace removed if and only if the process exited with
\* code 0 before the timeout, and None after a non-zero exit, a timeout or a
\* launch failure.
IsTrimOf(t, s) ==
    \E a \in 0..Len(s) : \E b \in a..Len(s) :
        /\ t = SubSeq(s, a + 1, b)
        /\ \A k \in 1..a : s[k] \in Whitespace
        /\ \A k \in (b + 1)..Len(s) : s[k] \in Whitespace
        /\ t # <<>> => t[1] \notin Whitespace /\ t[Len(t)] \notin Whitespace

C7_RunCommandReturns ==
    \A n \in 1..Len(probe_log) :
        LET c == probe_log[n] IN
        IF c.outcome.raised = "none" /\ c.outcome.returncode = 0
        THEN ~c.result.is_none /\ IsTrimOf(c.result.text, c.outcome.stdout)
        ELSE c.result.is_none

C7_Witness ==
    /\ Len(probe_log) = 6
    /\ probe_log[1].outcome.returncode = 3
    /\ probe_log[2].outcome.raised = "TimeoutExpired"
    /\ probe_log[3].outcome = Exited(0, <<>>)
    /\ probe_log[4].outcome.raised = "OSError"
    /\ probe_log[5].outcome.stdout # <<>>
    /\ ~probe_log[5].result.is_none
    /\ probe_log[5].result.text # probe_log[5].outcome.stdout

\* C8: check_file_permissions records exactly one result per file,
\* /etc/passwd before /etc/shadow, each classified by its own file alone:
\* ERROR if the file is missing or stat fails, else PASS if the permission
\* bits are 644 (/etc/passwd) or one of 640, 600, 400 (/etc/shadow), else
\* FAIL; an ERROR adds nothing to score and the other file is still checked.
\* 0o644 = 420, 0o640 = 416, 0o600 = 384, 0o400 = 256
AcceptedBits(path) == IF path = ETC_PASSWD THEN {420} ELSE {416, 384, 256}

PermissionVerdict(path) ==
    IF ~fs[path].exists \/ ~fs[path].stat_ok THEN "ERROR"
    ELSE IF (fs[path].st_mode % 512) \in AcceptedBits(path) THEN "PASS"
    ELSE "FAIL"

C8_FilePermissions ==
    AfterFilePermissions =>
        /\ Cardinality(Entries("Permissions: /etc/passwd")) = 1
        /\ Cardinality(Entries("Permissions: /etc/shadow")) = 1
        /\ \A i \in Entries("Permissions: /etc/passwd") :
            /\ report[i].status = PermissionVerdict(ETC_PASSWD)
            /\ report[i + 1].check = "Permissions: /etc/shadow"
            /\ report[i + 1].status = PermissionVerdict(ETC_SHADOW)
        /\ pc = "check_cis_umask" =>
                score = Cardinality({i \in 1..Len(report) : report[i].status = "PASS"})

C8_Witness ==
    /\ pc = "check_cis_umask"
    /\ ~fs[ETC_PASSWD].exists
    /\ fs[ETC_SHADOW] = File(33184)
    /\ report[3].status = "ERROR"
    /\ report[4].status = "PASS"
    /\ score = 1

\* C9: check_rootkits records exactly one result: ERROR if the presence probe
\* fails, and then the scan probe is not run; otherwise ERROR if the scan
\* probe fails, WARNING if its output contains "Warning:", PASS if not. The
\* scan probe runs only after a successful presence probe.
RootkitVerdict ==
    IF Failed(sys[CMD_RKHUNTER_PRESENT]) THEN "ERROR"
    ELSE IF Failed(sys[CMD_RKHUNTER_SCAN]) THEN "ERROR"
    ELSE IF Contains(T_Warning, sys[CMD_RKHUNTER_SCAN].stdout) THEN "WARNING"
    ELSE "PASS"

C9_RootkitScan ==
    /\ \A n \in 1..Len(probe_log) :
            probe_log[n].command = CMD_RKHUNTER_SCAN =>
                /\ n > 1
                /\ probe_log[n - 1].command = CMD_RKHUNTER_PRESENT
                /\ ~Failed(probe_log[n - 1].outcome)
    /\ AfterRootkits =>
        /\ Cardinality(Entries("Rootkit Scan")) = 1
        /\ \A i \in Entries("Rootkit Scan") : report[i].status = RootkitVerdict
        /\ Failed(sys[CMD_RKHUNTER_PRESENT]) => CMD_RKHUNTER_SCAN \notin DOMAIN sys

C9_Witness ==
    /\ pc = "print_report"
    /\ ~Failed(sys[CMD_RKHUNTER_PRESENT])
    /\ report[7].status = "WARNING"

\* C10: when the first call of main() reaches the final score, the report
\* holds exactly 7 results, one per check name in the fixed order, max_score
\* is 5 and 0 <= score <= max_score; no call ever prints "No scorable checks
\* were completed."
C10_FinalScore ==
    /\ (AfterRootkits /\ calls = 1) =>
        /\ Len(report) = 7
        /\ \A k \in 1..7 : report[k].check = CheckOrder[k]
        /\ max_score = 5
        /\ 0 <= score /\ score <= max_score
    /\ \A n \in 1..Len(printed) : printed[n].final # "No scorable checks were completed."

C10_Witness ==
    /\ pc = "done"
    /\ calls = 1
    /\ Len(printed) = 1
    /\ score = 5
    /\ report[2].status = "PASS"
====
